---- MODULE Spec2Model ----
(***************************************************************************)
(* Model of the graph execution engine of app/graph_engine.py and of the   *)
(* log-streaming endpoint of app/main.py.                                  *)
(*                                                                         *)
(* Python values are written as strings: "True"/"False" are the booleans,  *)
(* "1"/"2" are numbers, a quoted string such as "'true'" is a str, "None"  *)
(* is None and "list#0" is a reference to the list object kept in heap.    *)
(* A dict is a function whose DOMAIN is its key set.                       *)
(*                                                                         *)
(* asyncio is cooperative: a coroutine runs until it really suspends.      *)
(* Queue.put on an unbounded queue never suspends, so execute_graph_run    *)
(* suspends only inside _call_fn and at asyncio.sleep(0); one action is    *)
(* the code between two such points.                                       *)
(***************************************************************************)
EXTENDS Naturals, Sequences, FiniteSets, TLC

VARIABLES GRAPHS, RUNS, task, initial_state, heap, ws, http

vars == <<GRAPHS, RUNS, task, initial_state, heap, ws, http>>

(* ------------------------------ bounds --------------------------------- *)
\* MAX_STEPS is the local constant of execute_graph_run (1000 in the code),
\* scaled down so that the step bound is reached.
MAX_STEPS == 3
\* number of run_graph_async calls the callers make
MaxRuns == 2
\* number of websocket subscribers
MaxSubs == 2

(* ------------------------------ dicts ---------------------------------- *)
EmptyDict == [k \in {} |-> "None"]

\* dict.get(key, default)
DictGet(d, k, default) == IF k \in DOMAIN d THEN d[k] ELSE default

\* dict.update(res): insertion/overwrite, last write wins
DictUpdate(d, res) ==
    [k \in DOMAIN d \cup DOMAIN res |-> IF k \in DOMAIN res THEN res[k] ELSE d[k]]

\* dict.copy(): a new dict with the same values; a value that is a reference
\* ("list#0") still names the same object of the heap
DictCopy(d) == [k \in DOMAIN d |-> d[k]]

(* --------------------------- python values ----------------------------- *)
StrLowerKeepsCase(v) ==
    CASE v = "True"   -> "True"
      [] v = "False"  -> "False"
      [] v = "None"   -> "None"
      [] v = "'true'" -> "true"
      [] v = "'TRUE'" -> "TRUE"
      [] v = "'no'"   -> "no"
      [] OTHER        -> v

\* str(v).lower()
StrLower(v) ==
    CASE v = "True"   -> "true"
      [] v = "False"  -> "false"
      [] v = "None"   -> "none"
      [] v = "'true'" -> "true"
      [] v = "'TRUE'" -> "true"
      [] v = "'no'"   -> "no"
      [] OTHER        -> v

\* v is True
IsTrue(v) == v = "True"

\* v == True  (in Python 1 == True)
EqTrue(v) == v \in {"True", "1"}

(* ------------------------------ registries ----------------------------- *)
\* names registered with @register_tool / @register_node
tools == {"t"}
NODE_FUNCS == {"f"}

\* fn_name.startswith("tool:")
StartsWithTool(fn_name) == fn_name \in {"tool:t", "tool:ghost"}

\* fn_name.split(":", 1)[1]
ToolName(fn_name) ==
    CASE fn_name = "tool:t"     -> "t"
      [] fn_name = "tool:ghost" -> "ghost"
      [] OTHER                  -> fn_name

(* ------------------------------ graphs --------------------------------- *)
NoEdge == [kind |-> "none", t |-> "None", f |-> "None"]
Direct(k) == [kind |-> "str", t |-> k, f |-> "None"]
Branch(a, b) == [kind |-> "dict", t |-> a, f |-> b]

\* the "nodes" part of a graph definition as a caller posts it
\* (fn / next / meta.condition; "None" is an absent entry)
NodeInfos ==
    [A |-> [fn |-> "f",          next |-> Direct("B"),      condition |-> "None"],
     B |-> [fn |-> "tool:t",     next |-> Direct("A"),      condition |-> "None"],
     C |-> [fn |-> "f",          next |-> Branch("D", "E"), condition |-> "state['flag'] == True"],
     F |-> [fn |-> "tool:t",     next |-> Branch("G", "E"), condition |-> "state.get('flag', False) == True"],
     D |-> [fn |-> "None",       next |-> NoEdge,           condition |-> "None"],
     E |-> [fn |-> "None",       next |-> Branch("H", "Z"), condition |-> "None"],
     G |-> [fn |-> "ghost",      next |-> Direct("A"),      condition |-> "None"],
     H |-> [fn |-> "tool:ghost", next |-> Direct("A"),      condition |-> "None"]]

\* entry keys of the definitions posted; "Z" is in no node table
EntryKeys == {"A", "B", "C", "F", "D", "E", "G", "H", "Z"}

GraphDefinitions == {[entry |-> e, nodes |-> NodeInfos] : e \in EntryKeys}

NodeDef(key, info) ==
    [key |-> key, fn_name |-> info.fn, next |-> info.next, condition |-> info.condition]

\* create_graph: the store after one definition was posted (gid 1)
create_graph(definition) ==
    [gid \in {1} |->
        [graph_id |-> gid,
         nodes |-> [key \in DOMAIN definition.nodes |-> NodeDef(key, definition.nodes[key])],
         entry |-> definition.entry]]

(* ------------------------------ run state ------------------------------ *)
None == [t |-> "None", a |-> ""]
Msg(t, a) == [t |-> t, a |-> a]

\* asyncio.Queue(): items is everything put so far, in order, and got the
\* number of items get() has handed out; the queue holds the rest
Queue == [items |-> <<>>, got |-> 0]
QueuePut(q, item) == [q EXCEPT !.items = Append(@, item)]
QueueContent(q) == SubSeq(q.items, q.got + 1, Len(q.items))
QueueGet(q) == [q EXCEPT !.got = @ + 1]

\* RunState(run_id, graph_id, current_node=None, state=...)
RunState(run_id, gid, state) ==
    [run_id |-> run_id, graph_id |-> gid, current_node |-> "None", state |-> state,
     status |-> "PENDING", logs |-> <<>>, log_queue |-> Queue]

_emitDropEntering(rs, msg) ==
    IF msg.t = "Entering node"
    THEN [rs EXCEPT !.logs = Append(@, msg)]
    ELSE [rs EXCEPT !.logs = Append(@, msg), !.log_queue = QueuePut(@, msg)]

\* _emit: append to logs and put on the (unbounded) log_queue
_emit(rs, msg) == [rs EXCEPT !.logs = Append(@, msg), !.log_queue = QueuePut(@, msg)]

\* the coroutine of execute_graph_run: where it is suspended and its locals;
\* statuses lists the values it has assigned to run_state.status so far
Frame == [pc |-> "start", node_key |-> "None", visited |-> 0, statuses |-> <<>>]

\* run_state.status = status
SetStatus(c, status) ==
    [rs |-> [c.rs EXCEPT !.status = status],
     fr |-> [c.fr EXCEPT !.statuses = Append(@, status)]]

Ctx(rs, fr) == [rs |-> rs, fr |-> fr]

(* ------------------------------ the engine ----------------------------- *)
\* a function's result: None, a dict, or some other object
NoResult == [ty |-> "None", d |-> EmptyDict]
DictResult(d) == [ty |-> "dict", d |-> d]
OtherResult == [ty |-> "str", d |-> EmptyDict]

\* isinstance(result, dict) and "next" in result
HasNext(result) == result.ty = "dict" /\ "next" \in DOMAIN result.d

\* finally: put the end-of-stream marker; the coroutine is over
Finally(rs, fr) ==
    [rs |-> [rs EXCEPT !.log_queue = QueuePut(@, None)],
     fr |-> [fr EXCEPT !.pc = "done"]]

ExceptSwallowed(rs, fr, exc) ==
    LET c == SetStatus(Ctx(_emit(rs, Msg("Execution failed", exc)), fr), "DONE")
    IN  Finally(c.rs, c.fr)

ExceptNoMarker(rs, fr, exc) ==
    LET c == SetStatus(Ctx(_emit(rs, Msg("Execution failed", exc)), fr), "FAILED")
    IN  Ctx(c.rs, [c.fr EXCEPT !.pc = "done"])

\* except Exception as exc: log the failure, status FAILED
Except(rs, fr, exc) ==
    LET c == SetStatus(Ctx(_emit(rs, Msg("Execution failed", exc)), fr), "FAILED")
    IN  Finally(c.rs, c.fr)

AfterLoopDoneFirst(rs, fr) ==
    LET c == SetStatus(Ctx(rs, fr), "DONE")
        d == IF fr.visited >= MAX_STEPS
             THEN SetStatus(Ctx(_emit(c.rs, Msg("Max steps reached", "")), c.fr), "FAILED")
             ELSE Ctx(_emit(c.rs, Msg("Run finished", c.rs.status)), c.fr)
    IN  Finally(d.rs, d.fr)

AfterLoopStatusLost(rs, fr) ==
    IF fr.visited >= MAX_STEPS
    THEN LET c == SetStatus(Ctx(_emit(rs, Msg("Max steps reached", "")), fr), "FAILED")
         IN  Finally(c.rs, c.fr)
    ELSE Finally(_emit(rs, Msg("Run finished", "DONE")), fr)

\* after the while loop: the step bound, or completion
AfterLoop(rs, fr) ==
    IF fr.visited >= MAX_STEPS
    THEN LET c == SetStatus(Ctx(_emit(rs, Msg("Max steps reached", "")), fr), "FAILED")
         IN  Finally(c.rs, c.fr)
    ELSE LET c == SetStatus(Ctx(rs, fr), "DONE")
         IN  Finally(_emit(c.rs, Msg("Run finished", c.rs.status)), c.fr)

\* eval(cond_expr, {"state": state}): "raise", or the truth of the value
EvalCondition(cond_expr, state) ==
    CASE cond_expr = "state['flag'] == True" ->
            IF "flag" \notin DOMAIN state THEN "raise"
            ELSE IF EqTrue(state["flag"]) THEN "true" ELSE "false"
      [] cond_expr = "state.get('flag', False) == True" ->
            IF EqTrue(DictGet(state, "flag", "False")) THEN "true" ELSE "false"
      [] OTHER -> "raise"

\* no "condition" in meta: branch on state["last_condition"]
LastCondition(state) ==
    LET branch_flag == DictGet(state, "last_condition", "None")
    IN  IF IsTrue(branch_flag) \/ StrLower(branch_flag) = "true" THEN "true" ELSE "false"

\* node_def.next.get(branch)
BranchTarget(next, branch) == IF branch = "true" THEN next.t ELSE next.f

DecideNextStaticFirst(node_def, result, state) ==
    IF node_def.next.kind = "str" THEN node_def.next.t
    ELSE IF node_def.next.kind = "dict"
         THEN IF node_def.condition # "None"
              THEN LET cond_val == EvalCondition(node_def.condition, state)
                   IN  IF cond_val = "raise" THEN "raise"
                       ELSE BranchTarget(node_def.next, cond_val)
              ELSE BranchTarget(node_def.next, LastCondition(state))
    ELSE IF HasNext(result) THEN result.d["next"]
    ELSE "None"

\* "Decide next node", priorities 1 and 2: the key, or "raise"
DecideNext(node_def, result, state) ==
    IF HasNext(result) THEN result.d["next"]
    ELSE IF node_def.next.kind = "str" THEN node_def.next.t
    ELSE IF node_def.next.kind = "dict"
         THEN IF node_def.condition # "None"
              THEN LET cond_val == EvalCondition(node_def.condition, state)
                   IN  IF cond_val = "raise" THEN "raise"
                       ELSE BranchTarget(node_def.next, cond_val)
              ELSE BranchTarget(node_def.next, LastCondition(state))
    ELSE "None"

StopRequestedNever(state) == FALSE

\* priority 3: state.get("stop") is True
StopRequested(state) == IsTrue(DictGet(state, "stop", "None"))

\* the rest of a loop iteration once the function's result is in hand:
\* the completion line, the next key, the stop request, asyncio.sleep(0)
StepTail(graph, rs, fr, result) ==
    LET node_def == graph.nodes[fr.node_key]
        rs1 == _emit(rs, Msg("completed", fr.node_key))
        next_node == DecideNext(node_def, result, rs.state)
        rs2 == IF HasNext(result) THEN _emit(rs1, Msg("explicit next", next_node)) ELSE rs1
    IN  IF next_node = "raise"
        THEN Except(rs1, fr, "Error evaluating condition")
        ELSE IF StopRequested(rs.state)
             THEN [rs |-> _emit(rs2, Msg("State requested stop", "")),
                   fr |-> [fr EXCEPT !.node_key = "None", !.pc = "sleep"]]
             ELSE [rs |-> rs2, fr |-> [fr EXCEPT !.node_key = next_node, !.pc = "sleep"]]

LoopTestOffByOne(fr) == fr.node_key # "None" /\ fr.visited <= MAX_STEPS

\* while node_key is not None and visited < MAX_STEPS
LoopTest(fr) == fr.node_key # "None" /\ fr.visited < MAX_STEPS

AwaitCallNoWait(rs, fr) == [rs |-> rs, fr |-> [fr EXCEPT !.pc = "sleep"]]

\* res = await _call_fn(fn, state): the coroutine is suspended until the
\* function (awaited, or run in the executor's thread) has returned
AwaitCall(rs, fr) == [rs |-> rs, fr |-> [fr EXCEPT !.pc = "call"]]

\* the while test and an iteration up to the function call
WhileLoop(graph, rs, fr) ==
    IF LoopTest(fr)
    THEN LET fr1 == [fr EXCEPT !.visited = @ + 1]
             rs1 == [rs EXCEPT !.current_node = fr.node_key]
         IN  IF fr.node_key \notin DOMAIN graph.nodes
             THEN AfterLoop(_emit(rs1, Msg("not found", fr.node_key)), fr1)
             ELSE LET node_def == graph.nodes[fr.node_key]
                      rs2 == _emit(rs1, Msg("Entering node", fr.node_key))
                  IN  IF node_def.fn_name # "None"
                      THEN IF StartsWithTool(node_def.fn_name)
                           THEN IF ToolName(node_def.fn_name) \notin tools
                                THEN Except(rs2, fr1, "Tool not found")
                                ELSE AwaitCall(rs2, fr1)
                           ELSE IF node_def.fn_name \notin NODE_FUNCS
                                THEN Except(rs2, fr1, "Node function not registered")
                                ELSE AwaitCall(rs2, fr1)
                      ELSE StepTail(graph, _emit(rs2, Msg("no fn_name", fr.node_key)),
                                    fr1, NoResult)
    ELSE AfterLoop(rs, fr)

\* the engine's merge of a tool's result
MergeTool(state, res) == IF res.ty = "dict" THEN DictUpdate(state, res.d) ELSE state

MergeNodeKeepOld(state, res) ==
    IF res.ty = "dict" /\ "next" \notin DOMAIN res.d
    THEN [k \in DOMAIN state \cup DOMAIN res.d |->
             IF k \in DOMAIN state THEN state[k] ELSE res.d[k]]
    ELSE state

\* the engine's merge of a node function's result
MergeNode(state, res) ==
    IF res.ty = "dict" /\ "next" \notin DOMAIN res.d THEN DictUpdate(state, res.d) ELSE state

(* --------------------- node and tool functions ------------------------- *)
\* What one call of a registered function does: the keys it assigns in the
\* state in place, whether it appends to the list state["items"], and what
\* it returns or that it raises.  The functions are the callers' code, so
\* each call picks one of these behaviours.
Outcome(set, append, ret, raises) ==
    [set |-> set, append |-> append, ret |-> ret, raises |-> raises]

Outcomes ==
    { Outcome(EmptyDict, FALSE, NoResult, TRUE),
      Outcome(EmptyDict, FALSE, NoResult, FALSE),
      Outcome(EmptyDict, FALSE, OtherResult, FALSE),
      Outcome([stop |-> "True"], FALSE, NoResult, FALSE),
      Outcome(EmptyDict, TRUE, NoResult, FALSE),
      Outcome(EmptyDict, FALSE, DictResult([x |-> "2"]), FALSE),
      Outcome(EmptyDict, FALSE, DictResult([stop |-> "True"]), FALSE),
      Outcome([flag |-> "True"], FALSE, DictResult([last_condition |-> "'TRUE'"]), FALSE),
      Outcome([x |-> "1"], FALSE, DictResult([next |-> "D", x |-> "2"]), FALSE),
      Outcome(EmptyDict, FALSE, DictResult([next |-> "Z", stop |-> "True"]), FALSE) }

\* the few behaviours used where several runs or subscribers interleave
FewOutcomes ==
    { Outcome(EmptyDict, FALSE, NoResult, TRUE),
      Outcome(EmptyDict, TRUE, NoResult, FALSE),
      Outcome([stop |-> "True"], FALSE, DictResult([x |-> "2"]), FALSE) }

\* the callers' initial-state objects; "list#0" is a list the caller owns
InitialStates ==
    { [items |-> "list#0"],
      [items |-> "list#0", stop |-> "True"],
      [items |-> "list#0", flag |-> "False", x |-> "0"],
      [items |-> "list#0", flag |-> "1", last_condition |-> "'true'"],
      [items |-> "list#0", last_condition |-> "'no'"],
      [last_condition |-> "True"],
      [last_condition |-> "'TRUE'"],
      [last_condition |-> "False"],
      [last_condition |-> "1"] }

(* ------------------------------ actions -------------------------------- *)
Subs == 1 .. MaxSubs

Init ==
    /\ GRAPHS \in {create_graph(definition) : definition \in GraphDefinitions}
    /\ RUNS = <<>>
    /\ task = <<>>
    /\ initial_state \in InitialStates
    /\ heap = [ref \in {"list#0"} |-> <<>>]
    /\ ws = [s \in Subs |-> [pc |-> "idle", run_id |-> 0, sent |-> <<>>]]
    /\ http = "None"

\* fewer graphs and initial states, where several runs interleave
InitFew ==
    /\ Init
    /\ GRAPHS[1].entry \in {"A", "F"}
    /\ initial_state \in {[items |-> "list#0"], [last_condition |-> "True"]}

run_graph_asyncAnyGraph(gid) ==
    LET run_id == Len(RUNS) + 1
    IN  /\ RUNS' = Append(RUNS, RunState(run_id, 1, DictCopy(initial_state)))
        /\ task' = Append(task, Frame)
        /\ http' = IF gid \notin DOMAIN GRAPHS THEN "404" ELSE "200"
        /\ UNCHANGED <<GRAPHS, initial_state, heap, ws>>

\* api_graph_run -> run_graph_async: KeyError (404) for an unknown graph id,
\* else a RunState over a copy of the initial state and a scheduled task
run_graph_async(gid) ==
    IF gid \notin DOMAIN GRAPHS
    THEN /\ http' = "404"
         /\ UNCHANGED <<GRAPHS, RUNS, task, initial_state, heap, ws>>
    ELSE LET run_id == Len(RUNS) + 1
         IN  /\ RUNS' = Append(RUNS, RunState(run_id, gid, DictCopy(initial_state)))
             /\ task' = Append(task, Frame)
             /\ http' = "200"
             /\ UNCHANGED <<GRAPHS, initial_state, heap, ws>>

SetRun(r, c) ==
    /\ RUNS' = [RUNS EXCEPT ![r] = c.rs]
    /\ task' = [task EXCEPT ![r] = c.fr]

\* the task starts: status RUNNING, the start line, then the loop
Start(r) ==
    /\ task[r].pc = "start"
    /\ LET graph == GRAPHS[RUNS[r].graph_id]
           c == SetStatus(Ctx(RUNS[r], task[r]), "RUNNING")
           rs == _emit(c.rs, Msg("Run started", graph.entry))
           fr == [c.fr EXCEPT !.node_key = graph.entry, !.visited = 0]
       IN  SetRun(r, WhileLoop(graph, rs, fr))
    /\ UNCHANGED <<GRAPHS, initial_state, heap, ws, http>>

\* _call_fn returns: the function has acted on the state, the engine merges
FnReturn(r, o) ==
    /\ task[r].pc = "call"
    /\ o.append => "items" \in DOMAIN RUNS[r].state
    /\ LET graph == GRAPHS[RUNS[r].graph_id]
           node_def == graph.nodes[task[r].node_key]
           inplace == DictUpdate(RUNS[r].state, o.set)
           merged == IF StartsWithTool(node_def.fn_name)
                     THEN MergeTool(inplace, o.ret)
                     ELSE MergeNode(inplace, o.ret)
       IN  /\ heap' = IF o.append
                      THEN [heap EXCEPT ![RUNS[r].state["items"]] = Append(@, 1)]
                      ELSE heap
           /\ IF o.raises
              THEN SetRun(r, Except([RUNS[r] EXCEPT !.state = inplace], task[r],
                                    "function raised"))
              ELSE SetRun(r, StepTail(graph, [RUNS[r] EXCEPT !.state = merged],
                                      task[r], o.ret))
    /\ UNCHANGED <<GRAPHS, initial_state, ws, http>>

ResumeWhenDrained(r) ==
    /\ task[r].pc = "sleep"
    /\ QueueContent(RUNS[r].log_queue) = <<>>
    /\ SetRun(r, WhileLoop(GRAPHS[RUNS[r].graph_id], RUNS[r], task[r]))
    /\ UNCHANGED <<GRAPHS, initial_state, heap, ws, http>>

\* asyncio.sleep(0) returns: the while test and the next iteration
Resume(r) ==
    /\ task[r].pc = "sleep"
    /\ SetRun(r, WhileLoop(GRAPHS[RUNS[r].graph_id], RUNS[r], task[r]))
    /\ UNCHANGED <<GRAPHS, initial_state, heap, ws, http>>

\* websocket_logs up to the read loop: accept, get_run, "Run not found"
WsConnect(s, run_id) ==
    /\ ws[s].pc = "idle"
    /\ IF run_id \notin DOMAIN RUNS
       THEN ws' = [ws EXCEPT ![s] = [pc |-> "closed", run_id |-> run_id,
                                     sent |-> <<Msg("error", "Run not found")>>]]
       ELSE ws' = [ws EXCEPT ![s] = [pc |-> "open", run_id |-> run_id, sent |-> <<>>]]
    /\ UNCHANGED <<GRAPHS, RUNS, task, initial_state, heap, http>>

\* one round of the read loop: q.get() takes the head of the queue away
WsGet(s) ==
    /\ ws[s].pc = "open"
    /\ LET q == RUNS[ws[s].run_id].log_queue
           msg == Head(QueueContent(q))
       IN  /\ QueueContent(q) # <<>>
           /\ RUNS' = [RUNS EXCEPT ![ws[s].run_id].log_queue = QueueGet(q)]
           /\ IF msg = None
              THEN ws' = [ws EXCEPT ![s].sent = Append(@, Msg("done", "")),
                                    ![s].pc = "closed"]
              ELSE ws' = [ws EXCEPT ![s].sent = Append(@, msg)]
    /\ UNCHANGED <<GRAPHS, task, initial_state, heap, http>>

Engine(Outs) ==
    \E r \in DOMAIN RUNS :
        \/ Start(r)
        \/ \E o \in Outs : FnReturn(r, o)
        \/ Resume(r)

\* one run, every function behaviour
Next ==
    \/ \E gid \in {1, 2} : (gid = 1 => Len(RUNS) < 1) /\ run_graph_async(gid)
    \/ Engine(Outcomes)

Spec == Init /\ [][Next]_vars

\* the callers' requests (at most nruns runs) and the subscribers in subs
Clients(nruns, subs) ==
    \/ \E gid \in {1, 2} : (gid = 1 => Len(RUNS) < nruns) /\ run_graph_async(gid)
    \/ \E s \in subs : \/ \E run_id \in 1 .. (nruns + 1) : WsConnect(s, run_id)
                       \/ WsGet(s)

\* several runs interleaved, watched by one subscriber
NextRuns == Clients(MaxRuns, {1}) \/ Engine(FewOutcomes)

\* the event loop runs every ready task, and a called function returns
EngineStep(r) ==
    /\ r \in DOMAIN RUNS
    /\ (Start(r) \/ (\E o \in Outcomes : FnReturn(r, o)) \/ Resume(r))

FairSpec == Spec /\ WF_vars(EngineStep(1))

SpecRuns == InitFew /\ [][NextRuns]_vars

\* one run and several subscribers
NextWs == Clients(1, Subs) \/ Engine(FewOutcomes)

SpecWs == Init /\ [][NextWs]_vars

\* one run, every function behaviour, and a single subscriber
NextWs1 == Clients(1, {1}) \/ Engine(Outcomes)

SpecWs1 == Init /\ [][NextWs1]_vars

\* SpecWs1 with the event loop running the engine's task; nothing makes the
\* subscriber attach or go on reading
FairSpecWs1 == SpecWs1 /\ WF_vars(EngineStep(1))

(* ------------------------------ properties ----------------------------- *)
Terminal == {"DONE", "FAILED"}
Count(seq, t) == Cardinality({i \in DOMAIN seq : seq[i].t = t})
Last(seq) == seq[Len(seq)]

\* C1: a run's status only moves PENDING -> RUNNING -> DONE or FAILED: the
\* task's first assignment is RUNNING, the status is PENDING exactly while
\* the task has not started, a terminal status is assigned exactly once
\* and nothing is assigned after it.
C1_StatusOrder ==
    \A r \in DOMAIN RUNS :
        LET st == task[r].statuses
        IN  /\ st \in {<<>>, <<"RUNNING">>, <<"RUNNING", "DONE">>, <<"RUNNING", "FAILED">>}
            /\ RUNS[r].status = IF st = <<>> THEN "PENDING" ELSE Last(st)
            /\ (RUNS[r].status = "PENDING") <=> (task[r].pc = "start")
            /\ (RUNS[r].status \in Terminal) <=> (task[r].pc = "done")

C1_Witness ==
    /\ Len(RUNS) = 2
    /\ RUNS[1].status = "FAILED" /\ task[1].visited = MAX_STEPS
    /\ RUNS[2].status = "DONE"
    /\ Len(ws[1].sent) > 1

\* C2: at most one end-of-stream marker is ever put on a run's log queue,
\* exactly one once the run has finished, and nothing is put after it.
C2_OneMarker ==
    \A r \in DOMAIN RUNS :
        LET items == RUNS[r].log_queue.items
            n == Cardinality({i \in DOMAIN items : items[i] = None})
        IN  /\ n <= 1
            /\ (task[r].pc = "done") <=> (n = 1)
            /\ n = 1 => Last(items) = None

C2_Witness ==
    \E r \in DOMAIN RUNS :
        /\ task[r].pc = "done"
        /\ Count(RUNS[r].logs, "Execution failed") = 1
        /\ Count(RUNS[r].logs, "completed") > 0
        /\ Last(RUNS[r].log_queue.items) = None

\* a finished run whose loop still had a next key when it ended
EndedWithNext(r) ==
    /\ task[r].pc = "done"
    /\ task[r].node_key # "None"
    /\ Count(RUNS[r].logs, "Execution failed") = 0
    /\ Count(RUNS[r].logs, "not found") = 0

C3_Bounded ==
    \A r \in DOMAIN RUNS :
        /\ task[r].visited <= MAX_STEPS
        /\ Count(RUNS[r].logs, "Entering node") <= MAX_STEPS
        /\ EndedWithNext(r) =>
              /\ RUNS[r].status = "FAILED"
              /\ task[r].visited = MAX_STEPS
              /\ Count(RUNS[r].logs, "Entering node") = MAX_STEPS
              /\ Last(RUNS[r].logs) = Msg("Max steps reached", "")

\* C3: when every called function returns, a scheduled run reaches a
\* terminal status; it never visits more than MAX_STEPS nodes, and a run
\* that always has a next node ends FAILED after exactly MAX_STEPS visits
\* with the max-steps line as its last log line.
C3_Terminates ==
    /\ []C3_Bounded
    /\ \A r \in 1 .. MaxRuns :
          (r \in DOMAIN RUNS) ~> (r \in DOMAIN RUNS /\ RUNS[r].status \in Terminal)

C3_Witness ==
    \E r \in DOMAIN RUNS :
        /\ EndedWithNext(r)
        /\ GRAPHS[1].entry = "A"
        /\ RUNS[r].current_node = (IF MAX_STEPS % 2 = 1 THEN "A" ELSE "B")
        /\ Count(RUNS[r].logs, "explicit next") = 0
        /\ Count(RUNS[r].logs, "Entering node") = MAX_STEPS

(* what one step of run r appends to its log list *)
NewLogs(r) == SubSeq(RUNS'[r].logs, Len(RUNS[r].logs) + 1, Len(RUNS'[r].logs))

\* a run that is over takes no step: nothing of it changes but the queue's
\* read position
Over(r) ==
    task[r].pc = "done" =>
        /\ task'[r] = task[r]
        /\ RUNS'[r].logs = RUNS[r].logs
        /\ RUNS'[r].status = RUNS[r].status
        /\ RUNS'[r].state = RUNS[r].state
        /\ RUNS'[r].log_queue.items = RUNS[r].log_queue.items

\* C4: a returned mapping with a "next" entry is only a control directive,
\* for node functions and for tools: the state after the step is the state
\* the function left in place, and the run goes on to the node that "next"
\* names (unless the state the function left asks to stop).
C4_NextIsControlOnly ==
    [][\A r \in DOMAIN RUNS : \A o \in Outcomes :
          (FnReturn(r, o) /\ ~o.raises /\ HasNext(o.ret)) =>
              LET left == DictUpdate(RUNS[r].state, o.set)
              IN  /\ RUNS'[r].state = left
                  /\ ("stop" \notin DOMAIN left \/ left["stop"] # "True") =>
                        task'[r].node_key = o.ret.d["next"]]_vars

\* C5: a returned mapping without "next" is merged: every returned key maps
\* to the returned value, every other key keeps the value the function left;
\* a result that is no mapping, and a node without a function, change no key.
C5_Merge ==
    [][\A r \in DOMAIN RUNS :
          /\ \A o \in Outcomes :
                (FnReturn(r, o) /\ ~o.raises /\ ~HasNext(o.ret)) =>
                    LET left == DictUpdate(RUNS[r].state, o.set)
                        after == RUNS'[r].state
                    IN  /\ DOMAIN after = DOMAIN left \cup DOMAIN o.ret.d
                        /\ \A k \in DOMAIN o.ret.d : after[k] = o.ret.d[k]
                        /\ \A k \in DOMAIN left \ DOMAIN o.ret.d : after[k] = left[k]
                        /\ o.ret.ty # "dict" => after = left
          /\ (Start(r) \/ Resume(r)) => RUNS'[r].state = RUNS[r].state]_vars

C5_Witness ==
    \E r \in DOMAIN RUNS :
        /\ initial_state = [items |-> "list#0", flag |-> "False", x |-> "0"]
        /\ RUNS[r].state = [items |-> "list#0", flag |-> "False", x |-> "2"]
        /\ Count(RUNS[r].logs, "no fn_name") > 0

HasStop(state) == "stop" \in DOMAIN state /\ state["stop"] = "True"

\* some "completed" line of the step is followed by the stop line
StopAfterCompleted(new) ==
    \E i, j \in DOMAIN new :
        i < j /\ new[i].t = "completed" /\ new[j].t = "State requested stop"

\* the step that completed a node left the stop flag set
StoppedStep(r) == Count(NewLogs(r), "completed") = 1 /\ HasStop(RUNS'[r].state)

NoFurtherNode(r) ==
    /\ StoppedStep(r) => (task'[r].pc = "done" \/ task'[r].node_key = "None")
    /\ (task[r].pc = "sleep" /\ task[r].node_key = "None" /\ task'[r] # task[r]) =>
          (Count(NewLogs(r), "Entering node") = 0 /\ task'[r].pc = "done")
    /\ Over(r)

\* C6 as stated: when the state carries the stop flag after a node's
\* execution, no further node is visited and the step's completion line is
\* followed by the stop line.
C6_StopAsStated ==
    [][\A r \in DOMAIN RUNS :
          /\ NoFurtherNode(r)
          /\ StoppedStep(r) => StopAfterCompleted(NewLogs(r))]_vars

\* C6 amended: when the state carries the stop flag after a node's
\* execution, no further node is visited; the stop line follows the step's
\* completion line, unless the step raises after the function returned (the
\* node's branch condition fails to evaluate): then the run ends FAILED with
\* the error line and no stop line.
C6_Stop ==
    [][\A r \in DOMAIN RUNS :
          /\ NoFurtherNode(r)
          /\ StoppedStep(r) =>
                \/ StopAfterCompleted(NewLogs(r))
                \/ /\ Last(NewLogs(r)) = Msg("Execution failed", "Error evaluating condition")
                   /\ Count(NewLogs(r), "State requested stop") = 0
                   /\ RUNS'[r].status = "FAILED"
                   /\ GRAPHS[RUNS[r].graph_id].nodes[task[r].node_key].condition # "None"]_vars

C6_Witness ==
    \E r \in DOMAIN RUNS :
        /\ task[r].pc = "done"
        /\ HasStop(RUNS[r].state) /\ ~HasStop(initial_state)
        /\ Count(RUNS[r].logs, "explicit next") = 1
        /\ Count(RUNS[r].logs, "State requested stop") = 1
        /\ Count(RUNS[r].logs, "Entering node") = 2
        /\ RUNS[r].status = "DONE"

\* the key of the node a Start or Resume step of run r is about to enter
Entered(r) ==
    IF task[r].pc = "start" THEN GRAPHS[RUNS[r].graph_id].entry
    ELSE IF task[r].pc = "sleep" /\ task[r].visited < MAX_STEPS THEN task[r].node_key
    ELSE "None"

\* the step of run r meets an error, and its message
ErrorMessage(r) ==
    LET graph == GRAPHS[RUNS[r].graph_id]
    IN  IF \E o \in Outcomes : o.raises /\ FnReturn(r, o) THEN "function raised"
        ELSE IF /\ \E o \in Outcomes : ~o.raises /\ ~HasNext(o.ret) /\ FnReturn(r, o)
                /\ graph.nodes[task[r].node_key].condition = "state['flag'] == True"
                /\ "flag" \notin DOMAIN RUNS'[r].state
             THEN "Error evaluating condition"
        ELSE IF (Start(r) \/ Resume(r)) /\ Entered(r) \in DOMAIN graph.nodes
             THEN CASE graph.nodes[Entered(r)].fn_name = "ghost" -> "Node function not registered"
                    [] graph.nodes[Entered(r)].fn_name = "tool:ghost" -> "Tool not found"
                    [] OTHER -> "None"
        ELSE "None"

\* C7: an unregistered node function or tool, an exception of a function
\* and a branch condition that fails to evaluate each end the run in the
\* same step: status FAILED, the error message as the last log line, the
\* marker put, the task over; nothing is entered or called afterwards.
C7_ErrorsFail ==
    [][\A r \in DOMAIN RUNS :
          /\ ErrorMessage(r) # "None" =>
                /\ RUNS'[r].status = "FAILED"
                /\ Last(RUNS'[r].logs) = Msg("Execution failed", ErrorMessage(r))
                /\ Last(RUNS'[r].log_queue.items) = None
                /\ task'[r].pc = "done"
          /\ Over(r)]_vars

C7_Witness ==
    \E r \in DOMAIN RUNS :
        /\ RUNS[r].status = "FAILED"
        /\ Last(RUNS[r].logs) = Msg("Execution failed", "Tool not found")
        /\ Last(RUNS[r].log_queue.items) = None
        /\ Count(RUNS[r].logs, "Entering node") = 3
        /\ Count(RUNS[r].logs, "completed") = 2

Done == Msg("done", "")
Front(seq) == SubSeq(seq, 1, Len(seq) - 1)

\* s is the only subscriber that has attached to its run
OnlySubscriber(s) ==
    \A s2 \in Subs \ {s} : ws[s2].pc = "idle" \/ ws[s2].run_id # ws[s].run_id

\* C8: a single subscriber receives the run's log lines in order, none lost
\* or duplicated: what it has been sent is always a prefix of the log list,
\* and once it has read the end-of-stream marker it has been sent exactly
\* the final log list, whenever it attached.
C8_SingleSubscriber ==
    \A s \in Subs :
        (ws[s].run_id \in DOMAIN RUNS /\ OnlySubscriber(s)) =>
            LET logs == RUNS[ws[s].run_id].logs
            IN  /\ ws[s].pc = "open" =>
                      /\ Len(ws[s].sent) <= Len(logs)
                      /\ ws[s].sent = SubSeq(logs, 1, Len(ws[s].sent))
                /\ (ws[s].pc = "closed" /\ Last(ws[s].sent) = Done) =>
                      /\ Front(ws[s].sent) = logs
                      /\ task[ws[s].run_id].pc = "done"

C8_Witness ==
    \E s \in Subs :
        /\ OnlySubscriber(s)
        /\ ws[s].pc = "closed" /\ Last(ws[s].sent) = Done
        /\ Len(ws[s].sent) > 8
        /\ Count(ws[s].sent, "Max steps reached") = 1

\* C9: every subscriber of a run gets every log line and the marker, however
\* many subscribers there are: what a subscriber has been sent, followed by
\* what the channel still holds, is everything the engine has put, and a
\* subscriber that has read the marker has been sent the whole log list.
C9_EverySubscriber ==
    \A s \in Subs :
        ws[s].run_id \in DOMAIN RUNS =>
            LET q == RUNS[ws[s].run_id].log_queue
            IN  /\ ws[s].pc = "open" => ws[s].sent \o QueueContent(q) = q.items
                /\ (ws[s].pc = "closed" /\ Last(ws[s].sent) = Done) =>
                      Front(ws[s].sent) = RUNS[ws[s].run_id].logs

\* the value of a dict as its holder sees it: a reference shows the object
View(d, h) == [k \in DOMAIN d |-> IF d[k] \in DOMAIN h THEN h[d[k]] ELSE <<d[k]>>]

\* C10: a run works on its own copy of the initial state: no step changes
\* what the caller sees in the initial-state object, nested values included,
\* and no step of one run changes what another run created from the same
\* object sees in its state.
C10_CopyIsolates ==
    [][/\ View(initial_state', heap') = View(initial_state, heap)
       /\ \A r, r2 \in DOMAIN RUNS :
             (r # r2 /\ task'[r] # task[r]) =>
                 View(RUNS'[r2].state, heap') = View(RUNS[r2].state, heap)]_vars

\* C11: runs are isolated from each other: a step (or a failure) of one run
\* leaves every other run's state (nested values included), status, current
\* node, log list and log channel unchanged, and does not move the other
\* run's task.
C11_RunsIsolated ==
    [][\A r, r2 \in DOMAIN RUNS :
          (r # r2 /\ task'[r] # task[r]) =>
              /\ View(RUNS'[r2].state, heap') = View(RUNS[r2].state, heap)
              /\ RUNS'[r2].status = RUNS[r2].status
              /\ RUNS'[r2].current_node = RUNS[r2].current_node
              /\ RUNS'[r2].logs = RUNS[r2].logs
              /\ RUNS'[r2].log_queue = RUNS[r2].log_queue
              /\ task'[r2] = task[r2]]_vars

\* C12: run_graph_async for an unknown graph id fails at once with not-found
\* and creates nothing: the step that answers 404 leaves the run store and
\* the scheduled tasks as they were; the run store only ever grows by one
\* run of a stored graph, with one task scheduled for it, on a step that
\* answers 200.
C12_UnknownGraph ==
    [][/\ (http' = "404" /\ http # "404") => (RUNS' = RUNS /\ task' = task)
       /\ Len(RUNS') # Len(RUNS) =>
             /\ http' = "200"
             /\ Len(RUNS') = Len(RUNS) + 1
             /\ RUNS'[Len(RUNS')].graph_id \in DOMAIN GRAPHS
       /\ Len(task') = Len(RUNS')]_vars

C12_Witness ==
    /\ http = "404"
    /\ Len(RUNS) = 1 /\ Len(task) = 1
    /\ RUNS[1].status = "RUNNING"

\* a finished run whose loop ended for another reason than the step bound:
\* no next key was left (no edge, or a stop request) or the key named no node
EndedNaturally(r) ==
    /\ task[r].pc = "done"
    /\ Count(RUNS[r].logs, "Execution failed") = 0
    /\ (task[r].node_key = "None" \/ Count(RUNS[r].logs, "not found") = 1)

\* C13: the step-bound failure applies only when the loop ended because the
\* bound was reached: a run whose loop ended for another reason ends DONE
\* with the completion line last, for every number of visited nodes up to
\* and including MAX_STEPS, and a run ends FAILED with the max-steps line
\* only when a next key was still set when the bound was hit.
C13_BoundOnlyWhenHit ==
    \A r \in DOMAIN RUNS :
        /\ EndedNaturally(r) =>
              /\ RUNS[r].status = "DONE"
              /\ Last(RUNS[r].logs) = Msg("Run finished", "DONE")
        /\ Count(RUNS[r].logs, "Max steps reached") > 0 =>
              /\ RUNS[r].status = "FAILED"
              /\ task[r].node_key # "None"
              /\ task[r].visited = MAX_STEPS

\* the keys the edges of a node allow after a step with this result: the
\* returned "next" if there is one, else the static edge (the single key or
\* one of the two branch targets), else nothing
Resolved(node_def, result) ==
    IF HasNext(result) THEN {result.d["next"]}
    ELSE IF node_def.next.kind = "str" THEN {node_def.next.t}
    ELSE IF node_def.next.kind = "dict" THEN {node_def.next.t, node_def.next.f}
    ELSE {"None"}

\* the step of run r completes a node and the run goes on
GoesOn(r) ==
    /\ Count(NewLogs(r), "completed") = 1
    /\ task'[r].pc = "sleep"
    /\ ~HasStop(RUNS'[r].state)

\* C14: the nodes a run visits follow the resolved edges in priority order:
\* after a step the next key is the returned "next" if the result has one
\* (even when the node has a static edge), else the static edge's key, else
\* none and the run ends; a step visits at most one node, and that node is
\* the entry (first step) or the key resolved by the previous step.
C14_FollowsEdges ==
    [][\A r \in DOMAIN RUNS :
          LET nodes == GRAPHS[RUNS[r].graph_id].nodes
              new == NewLogs(r)
          IN  /\ \A o \in Outcomes :
                    (FnReturn(r, o) /\ GoesOn(r)) =>
                        task'[r].node_key \in Resolved(nodes[task[r].node_key], o.ret)
              /\ ((Start(r) \/ Resume(r)) /\ GoesOn(r)) =>
                    task'[r].node_key \in Resolved(nodes[Entered(r)], NoResult)
              /\ Count(new, "Entering node") + Count(new, "not found") <= 1
              /\ \A i \in DOMAIN new :
                    new[i].t \in {"Entering node", "not found"} =>
                        /\ new[i].a = Entered(r)
                        /\ RUNS'[r].current_node = Entered(r)
              /\ (task[r].pc = "sleep" /\ task[r].node_key = "None" /\ task'[r] # task[r]) =>
                    (task'[r].pc = "done" /\ Count(new, "Entering node") = 0)
              /\ (task[r].pc = "call" /\ task'[r] # task[r]) =>
                    Count(new, "Entering node") = 0]_vars

C14_Witness ==
    \E r \in DOMAIN RUNS :
        /\ GRAPHS[1].entry = "B"
        /\ task[r].pc = "done"
        /\ RUNS[r].logs[2] = Msg("Entering node", "B")
        /\ Count(RUNS[r].logs, "explicit next") = 1
        /\ RUNS[r].current_node = "D"
        /\ Last(RUNS[r].logs) = Msg("Run finished", "DONE")

\* C15: at a node with a branch edge and a condition that tests the state
\* flag, when the result carries no "next": the condition is evaluated on the
\* state as the step leaves it (function run, result merged); a true flag
\* leads to the "true" target, a false flag or a flag that is not set leads
\* to the "false" target, and an unset flag does not fail the run.
C15_BranchOnFlag ==
    [][\A r \in DOMAIN RUNS : \A o \in Outcomes :
          LET node_def == GRAPHS[RUNS[r].graph_id].nodes[task[r].node_key]
              after == RUNS'[r].state
          IN  (/\ FnReturn(r, o) /\ ~o.raises /\ ~HasNext(o.ret)
               /\ node_def.next.kind = "dict" /\ node_def.condition # "None") =>
                  /\ ("flag" \in DOMAIN after /\ after["flag"] = "True" /\ ~HasStop(after)) =>
                        task'[r].node_key = node_def.next.t
                  /\ (("flag" \notin DOMAIN after \/ after["flag"] = "False") /\ ~HasStop(after)) =>
                        task'[r].node_key = node_def.next.f
                  /\ "flag" \notin DOMAIN after =>
                        (RUNS'[r].status # "FAILED" /\ task'[r].pc = "sleep")]_vars

\* the values of last_condition that count as true: the boolean, and the
\* strings that read "true" when case is ignored
TrueValues == {"True", "'true'", "'TRUE'"}

\* C16: at a node with a branch edge and no condition, when the result
\* carries no "next" and no stop is requested, the next key is the "true"
\* target exactly when state["last_condition"] is the boolean true or a
\* string equal to "true" ignoring case, and the "false" target for every
\* other value (false, another string, a number, no such key).
C16_LastCondition ==
    [][\A r \in DOMAIN RUNS :
          LET nodes == GRAPHS[RUNS[r].graph_id].nodes
              after == RUNS'[r].state
              Routed(node_def) ==
                  (/\ node_def.next.kind = "dict" /\ node_def.condition = "None"
                   /\ ~HasStop(after)) =>
                      /\ task'[r].pc = "sleep"
                      /\ task'[r].node_key =
                            IF "last_condition" \in DOMAIN after
                               /\ after["last_condition"] \in TrueValues
                            THEN node_def.next.t ELSE node_def.next.f
          IN  /\ \A o \in Outcomes :
                    (FnReturn(r, o) /\ ~o.raises /\ ~HasNext(o.ret)) =>
                        Routed(nodes[task[r].node_key])
              /\ ((Start(r) \/ Resume(r)) /\ Count(NewLogs(r), "no fn_name") = 1) =>
                    Routed(nodes[Entered(r)])]_vars

C16_Witness ==
    \E r \in DOMAIN RUNS :
        /\ GRAPHS[1].entry = "E"
        /\ RUNS[r].state = [last_condition |-> "'TRUE'"]
        /\ task[r].pc = "sleep" /\ task[r].node_key = "H"
        /\ Last(RUNS[r].logs) = Msg("completed", "E")

\* C17: a step that finds the current key absent from the node table records
\* the key as current node, emits the missing-node line, enters no node and
\* calls no function, changes no state key, and ends the run DONE.
C17_MissingNodeDone ==
    [][\A r \in DOMAIN RUNS :
          Count(NewLogs(r), "not found") > 0 =>
              /\ Entered(r) \notin DOMAIN GRAPHS[RUNS[r].graph_id].nodes
              /\ RUNS'[r].current_node = Entered(r)
              /\ Count(NewLogs(r), "not found") = 1
              /\ Count(NewLogs(r), "Entering node") = 0
              /\ RUNS'[r].state = RUNS[r].state /\ heap' = heap
              /\ task'[r].pc = "done"
              /\ RUNS'[r].status = "DONE"]_vars

\* C18: log emission never blocks the engine: whether or not a subscriber
\* is attached or goes on reading, a run that is not over can always take
\* its next step, and it reaches a terminal status with the end-of-stream
\* marker put on its queue.
C18_NeverBlocks ==
    /\ [](\A r \in DOMAIN RUNS : task[r].pc # "done" => ENABLED EngineStep(r))
    /\ \A r \in 1 .. MaxRuns :
          (r \in DOMAIN RUNS) ~>
              (/\ r \in DOMAIN RUNS
               /\ task[r].pc = "done"
               /\ RUNS[r].status \in Terminal
               /\ Last(RUNS[r].log_queue.items) = None)

\* the subscriber read one line and then stopped; the run went to its end
C18_Witness ==
    \E r \in DOMAIN RUNS :
        /\ ws[1].pc = "open" /\ ws[1].run_id = r
        /\ RUNS[r].log_queue.got = 1
        /\ task[r].pc = "done" /\ task[r].visited = MAX_STEPS
        /\ Len(RUNS[r].log_queue.items) > 8
        /\ Last(RUNS[r].log_queue.items) = None

\* C19: within a run the steps are strictly sequential: at most one function
\* call is in flight, it belongs to the node entered last, and a node is
\* entered only after every node entered before it has completed (function
\* returned, result merged, next key resolved); meanwhile every other run
\* that is not over can take a step.
C19_Sequential ==
    \A r \in DOMAIN RUNS :
        LET logs == RUNS[r].logs
            entered == Count(logs, "Entering node")
            completed == Count(logs, "completed")
        IN  /\ entered \in {completed, completed + 1}
            /\ task[r].pc = "call" =>
                  /\ entered = completed + 1
                  /\ Last(logs) = Msg("Entering node", task[r].node_key)
                  /\ RUNS[r].current_node = task[r].node_key
                  /\ \A r2 \in DOMAIN RUNS \ {r} :
                        task[r2].pc # "done" => ENABLED EngineStep(r2)
            /\ task[r].pc \in {"start", "sleep"} => entered = completed
            /\ \A i, j \in DOMAIN logs :
                  (i < j /\ logs[i].t = "Entering node" /\ logs[j].t = "Entering node") =>
                      \E k \in (i + 1) .. (j - 1) : logs[k] = Msg("completed", logs[i].a)

\* both runs have a function call in flight, the first one its second
C19_Witness ==
    /\ Len(RUNS) = 2
    /\ task[1].pc = "call" /\ task[1].visited = 2
    /\ task[2].pc = "call" /\ task[2].visited = 1

\* a sequence of queue items without the end-of-stream marker, and what a
\* subscriber was sent without the "done" event that stands for the marker
NoMarker(seq) == SelectSeq(seq, LAMBDA m : m # None)
NoDone(seq) == SelectSeq(seq, LAMBDA m : m # Done)

MarkerPushed(r) == \E i \in DOMAIN RUNS[r].log_queue.items : RUNS[r].log_queue.items[i] = None

\* s is reading, or has read to the end, the queue of run r
Attached(s, r) ==
    /\ ws[s].run_id = r
    /\ ws[s].pc = "open" \/ (ws[s].pc = "closed" /\ Last(ws[s].sent) = Done)

C20_Consistent ==
    \A r \in DOMAIN RUNS :
        LET q == RUNS[r].log_queue
        IN  /\ MarkerPushed(r) => (RUNS[r].status \in Terminal /\ task[r].pc = "done")
            /\ NoMarker(SubSeq(q.items, 1, q.got)) \o NoMarker(QueueContent(q)) = RUNS[r].logs
            /\ \A s \in Subs :
                  (Attached(s, r) /\ OnlySubscriber(s)) =>
                      /\ NoDone(ws[s].sent) \o NoMarker(QueueContent(q)) = RUNS[r].logs
                      /\ Len(ws[s].sent) = q.got
            /\ (\A s \in Subs : ~Attached(s, r)) =>
                  (q.got = 0 /\ NoMarker(QueueContent(q)) = RUNS[r].logs)

\* C20: once the end-of-stream marker is on a run's queue the status is
\* terminal and the log list is final (no later step changes the status or
\* the log list), and at every moment what the single subscriber has been
\* sent, followed by what the queue still holds (marker left out), is the
\* run's log list.
C20_MarkerMeansFinal ==
    /\ []C20_Consistent
    /\ [][\A r \in DOMAIN RUNS :
             MarkerPushed(r) =>
                 /\ RUNS'[r].logs = RUNS[r].logs
                 /\ RUNS'[r].status = RUNS[r].status
                 /\ RUNS'[r].log_queue.items = RUNS[r].log_queue.items]_vars

\* the subscriber is in the middle of the stream of a run that is over
C20_Witness ==
    \E r \in DOMAIN RUNS :
        /\ MarkerPushed(r)
        /\ RUNS[r].status = "DONE"
        /\ Attached(1, r) /\ ws[1].pc = "open"
        /\ Len(ws[1].sent) = 2
        /\ Len(QueueContent(RUNS[r].log_queue)) > 3

====
